---- MODULE Spec2Model ----
(***************************************************************************)
(* Model of pyspkac/spkac.py: class SPKAC.                                 *)
(*                                                                         *)
(* One SPKAC object per behaviour.  Construct models SPKAC.__init__ as a   *)
(* whole (including _compute_public_key_), PushExtension models            *)
(* push_extension, SetSubject models "spkac.subject.<attr> = v" and        *)
(* GenCrt models gen_crt.  The results of the library calls the code       *)
(* makes (b64decode, der_decode, load_pub_key_bio, verify_final,           *)
(* X509.sign, X509.verify, X509.check_ca, time.time) are inputs.           *)
(***************************************************************************)
EXTENDS Integers, Sequences, FiniteSets, TLC

VARIABLES
    phase,        \* "new" | "ok" (constructor returned) | "failed" (it raised)
    arg,          \* the arguments and library outcomes of the constructor call
    err,          \* the exception raised by the constructor, or NoError
    steps,        \* the steps of __init__ that were executed, in order
    attrs,        \* names of the attributes that exist on self
    obj,          \* values of signed/spki/challenge/sig_algo/signature/pkey/hash
    extensions,   \* self.extensions (X509_Extension_Stack) as a sequence
    subject,      \* self.subject (X509_Name) as a set of <<key, value>>
    cert,         \* self.cert, or NoCert
    call,         \* arguments and library outcomes of the last gen_crt call
    ret,          \* outcome of the last gen_crt call
    pushed,       \* history: the extensions handed to push_extension, in call order
    issued_with,  \* history: the value of pushed at the last gen_crt call
    kept,         \* history: the last gen_crt call left self.cert as it was
    returned      \* history: some gen_crt call has returned

vars == <<phase, arg, err, steps, attrs, obj, extensions, subject, cert,
          call, ret, pushed, issued_with, kept, returned>>

(***************************************************************************)
(* Bounds                                                                  *)
(***************************************************************************)
MaxExt == 2

(***************************************************************************)
(* Python values                                                           *)
(***************************************************************************)
\* An optional argument is <<>> (None) or <<v>>.
None == <<>>
Some(v) == <<v>>

\* Truth value of an optional string argument: None and '' are false.
TruthyStr(o) == o # None /\ o[1] # ""

\* Truth value of an optional integer argument: None and 0 are false.
TruthyInt(o) == o # None /\ o[1] # 0

\* len() of a value without __len__ raises TypeError; such a value has
\* length Unsized here.
Unsized == -1

(***************************************************************************)
(* Class attributes                                                        *)
(***************************************************************************)
RsaMd5Oid == <<1, 2, 840, 113549, 1, 1, 4>>
RsaSha1Oid == <<1, 2, 840, 113549, 1, 1, 5>>

signature_algorithms == [o \in {RsaMd5Oid} |-> <<"RSA", "assign_rsa", "md5">>]

(***************************************************************************)
(* Exceptions                                                              *)
(***************************************************************************)
NoError == [cls |-> "none", msg |-> "", args |-> <<>>]

SPKAC_Decode_Error(msg, args) ==
    [cls |-> "SPKAC_Decode_Error", msg |-> msg, args |-> args]

Raise(cls, msg) == [cls |-> cls, msg |-> msg, args |-> <<>>]

(***************************************************************************)
(* Constructor inputs                                                      *)
(***************************************************************************)
Challenges == {"a", "b"}         \* strings a caller can expect
Embedded == {"a"}                \* strings a decoded value can carry
Exts == {"CA:FALSE", "CA:TRUE"}
SubjectKeys == {"CN"}
SubjectValues == {"u"}

SeqsUpTo(S, n) == UNION {[1..k -> S] : k \in 0..n}

\* What the caller passes besides b64val.
CallerArgs ==
    [ challenge : {None, Some("")} \cup {Some(c) : c \in Challenges},
      extensions: SeqsUpTo(Exts, 1),
      kw        : SUBSET (SubjectKeys \X SubjectValues) ]

\* <<len (seq), len (seq [0]), len (seq [1])>> of the decoded value.
Shapes == {Unsized, 2, 3} \X {Unsized, 2, 3} \X {Unsized, 1, 2}
GoodShape == <<3, 2, 2>>

\* What b64val holds, with the outcome of each library call made on it.
\* The fields of a value that does not decode, or that has not the shape
\* of a SignedPublicKeyAndChallenge, do not exist; they have one value here.
Undecodable ==
    [ decode    : {"bad_b64", "bad_der"},   \* b64decode / der_decode raises
      rest      : {FALSE},
      shape     : {<<Unsized, Unsized, Unsized>>},
      params    : {FALSE},
      keybits   : {FALSE},
      echallenge: {""},
      oid       : {<<>>},
      keyload   : {"bad"},
      r         : {-1} ]

Misshapen ==
    [ decode    : {"ok"},
      rest      : BOOLEAN,                  \* bytes left after the decoded value
      shape     : Shapes \ {GoodShape},
      params    : {FALSE},
      keybits   : {FALSE},
      echallenge: {""},
      oid       : {<<>>},
      keyload   : {"bad"},
      r         : {-1} ]

\* A SubjectPublicKeyInfo without key bits holds no key to load.
Shaped ==
    { v \in
      [ decode    : {"ok"},
        rest      : BOOLEAN,
        shape     : {GoodShape},
        params    : BOOLEAN,                  \* truth value of seq [1][1]
        keybits   : BOOLEAN,                  \* truth value of seq [0][0][1]
        echallenge: Embedded,                 \* seq [0][1]
        oid       : {RsaMd5Oid, RsaSha1Oid},  \* tuple (seq [1][0])
        keyload   : {"ok", "bad"},            \* load_pub_key_bio returns / raises RSAError
        r         : {-1, 0, 1, 2} ]           \* verify_final return code
      : v.keybits \/ v.keyload = "bad" }

Values == Undecodable \cup Misshapen \cup Shaped

Inputs == [b64val : Values, args : CallerArgs]

\* The inputs of a caller that expects no challenge, or expects "b".
LifeInputs == {i \in Inputs : i.args.challenge \in {None, Some("b")}}

(***************************************************************************)
(* SPKAC._compute_public_key_                                              *)
(***************************************************************************)
\* Mutant: every OID is taken for the one in the table.
compute_public_key_any(sig_algo, keyload) ==
    IF keyload # "ok"
    THEN [err |-> Raise("RSAError", "load_pub_key_bio"), pkey |-> "", hash |-> ""]
    ELSE [err |-> NoError,
          pkey |-> signature_algorithms[RsaMd5Oid][1],
          hash |-> signature_algorithms[RsaMd5Oid][3]]

\* The outcome of _compute_public_key_ for self.sig_algo = sig_algo when
\* load_pub_key_bio behaves as keyload: the exception raised, or NoError
\* and the (pkey, hash) pair returned.
compute_public_key(sig_algo, keyload) ==
    IF sig_algo \notin DOMAIN signature_algorithms
    THEN [err |-> SPKAC_Decode_Error("Unknown signature algorithm", <<>>),
          pkey |-> "", hash |-> ""]
    ELSE IF keyload # "ok"
    THEN [err |-> Raise("RSAError", "load_pub_key_bio"), pkey |-> "", hash |-> ""]
    ELSE [err |-> NoError,
          pkey |-> signature_algorithms[sig_algo][1],
          hash |-> signature_algorithms[sig_algo][3]]

(***************************************************************************)
(* SPKAC.push_extension                                                    *)
(***************************************************************************)
\* Mutant: the extension goes on the front of the stack.
push_front(stack, ext) == <<ext>> \o stack

\* X509_Extension_Stack.push: the extension goes on the end of the stack.
push(stack, ext) == Append(stack, ext)

RECURSIVE push_all(_, _)
push_all(stack, exts) ==
    IF exts = <<>> THEN stack
    ELSE push_all(push(stack, Head(exts)), Tail(exts))

(***************************************************************************)
(* SPKAC.__init__                                                          *)
(***************************************************************************)
NoObj == [signed |-> <<>>, spki |-> <<>>, challenge |-> "", sig_algo |-> <<>>,
          signature |-> "", pkey |-> "", hash |-> ""]

\* Lines 164-168: the fields taken from the decoded value.  signed is the
\* re-encoding of seq [0], the pair of spki and challenge.
extract(i) ==
    [NoObj EXCEPT !.signed = <<"DER", i.keybits, i.echallenge>>,
                  !.spki = <<"SPKI", i.keybits>>,
                  !.challenge = i.echallenge,
                  !.sig_algo = i.oid,
                  !.signature = "sig"]

ExtractedAttrs == {"signed", "spki", "challenge", "sig_algo", "signature"}

\* The outcome of a constructor run: the exception (or NoError), the steps
\* executed, the attributes set on self and their values.
Outcome(e, st, at, o, x, s) ==
    [err |-> e, steps |-> st, attrs |-> at, obj |-> o, extensions |-> x,
     subject |-> s]

Abort(e, st, at, o) == Outcome(e, st, at, o, <<>>, {})

\* Lines 160-161: len (seq) != 3 or len (seq [0]) != 2 or len (seq [1]) != 2,
\* evaluated left to right; len of an unsized value raises TypeError.
shape_check(i) ==
    IF i.shape[1] = Unsized THEN Raise("TypeError", "len")
    ELSE IF i.shape[1] # 3 THEN SPKAC_Decode_Error("Unknown SPKAC data format", <<>>)
    ELSE IF i.shape[2] = Unsized THEN Raise("TypeError", "len")
    ELSE IF i.shape[2] # 2 THEN SPKAC_Decode_Error("Unknown SPKAC data format", <<>>)
    ELSE IF i.shape[3] = Unsized THEN Raise("TypeError", "len")
    ELSE IF i.shape[3] # 2 THEN SPKAC_Decode_Error("Unknown SPKAC data format", <<>>)
    ELSE NoError

\* Mutant: the key bits of the SubjectPublicKeyInfo are tested.
pkinfo_tested_keybits(i) == i.keybits

\* Line 162: the element whose truth value rejects the input.
pkinfo_tested(i) == i.params

\* Mutant: "challenge is not None" in place of the truth value of challenge.
challenge_check_not_none(challenge, echallenge) ==
    IF challenge # None /\ challenge[1] # echallenge
    THEN SPKAC_Decode_Error("Challenge doesn't match: got \"%s\" expect \"%s\"",
                            <<challenge[1], echallenge>>)
    ELSE NoError

\* Lines 169-172.
challenge_check(challenge, echallenge) ==
    IF TruthyStr(challenge) /\ challenge[1] # echallenge
    THEN SPKAC_Decode_Error("Challenge doesn't match: got \"%s\" expect \"%s\"",
                            <<challenge[1], echallenge>>)
    ELSE NoError

\* Mutant: the test for a return code other than 1 is left out.
verify_result_unchecked(r) ==
    IF r < 0 THEN SPKAC_Decode_Error("Error during signature verification", <<>>)
    ELSE IF r = 0 THEN SPKAC_Decode_Error("Invalid signature", <<>>)
    ELSE NoError

\* Lines 178-183.
verify_result(r) ==
    IF r < 0 THEN SPKAC_Decode_Error("Error during signature verification", <<>>)
    ELSE IF r = 0 THEN SPKAC_Decode_Error("Invalid signature", <<>>)
    ELSE IF r # 1 THEN Raise("RuntimeError", "Unexpected verify_final return code: %s")
    ELSE NoError

\* setattr (self.subject, k, v): the entry for k is replaced.
set_subject(s, k, v) == {p \in s : p[1] # k} \cup {<<k, v>>}

\* Lines 190-191: one setattr for each keyword argument.
set_all(s, kw) == {p \in s : \A q \in kw : q[1] # p[1]} \cup kw

\* Lines 173-183, after the challenge check passed; then lines 184-191.
init_verify(v, args, st) ==
    LET o  == extract(v)
        k  == compute_public_key(o.sig_algo, v.keyload)
        st1 == st \o <<"resolve">>
        o1 == [o EXCEPT !.pkey = k.pkey, !.hash = k.hash]
        at1 == ExtractedAttrs \cup {"pkey", "hash"}
        e  == verify_result(v.r)
    IN  IF k.err # NoError THEN Abort(k.err, st1, ExtractedAttrs, o)
        ELSE IF e # NoError THEN Abort(e, st1 \o <<"verify">>, at1, o1)
        ELSE Outcome(NoError, st1 \o <<"verify", "accept">>,
                     at1 \cup {"extensions", "subject"}, o1,
                     push_all(<<>>, args.extensions), set_all({}, args.kw))

\* Mutant: the signature algorithm is looked up before the challenge is
\* compared.
init_checked_late(v, args, st) ==
    LET k   == compute_public_key(extract(v).sig_algo, v.keyload)
        st1 == st \o <<"challenge">>
        c   == challenge_check(args.challenge, v.echallenge)
    IN  IF k.err # NoError
        THEN Abort(k.err, st \o <<"resolve">>, ExtractedAttrs, extract(v))
        ELSE IF c # NoError THEN Abort(c, st1, ExtractedAttrs, extract(v))
        ELSE init_verify(v, args, st1)

\* Lines 164-172, after the public key info check passed; then the rest
\* of __init__.
init_checked(v, args, st) ==
    LET st1 == st \o <<"challenge">>
        c   == challenge_check(args.challenge, v.echallenge)
    IN  IF c # NoError THEN Abort(c, st1, ExtractedAttrs, extract(v))
        ELSE init_verify(v, args, st1)

\* Lines 154-163 and, through init_checked, the rest of __init__.
init(v, args) ==
    LET s1 == <<"decode">>
        s2 == s1 \o <<"trailing">>
        s3 == s2 \o <<"shape">>
        s4 == s3 \o <<"pkinfo">>
    IN  IF v.decode = "bad_b64"
        THEN Abort(Raise("TypeError", "b64decode"), s1, {}, NoObj)
        ELSE IF v.decode = "bad_der"
        THEN Abort(SPKAC_Decode_Error("PyAsn1Error", <<>>), s1, {}, NoObj)
        ELSE IF v.rest
        THEN Abort(SPKAC_Decode_Error("ASN.1 decode: data after SPKAC value", <<>>),
                   s2, {}, NoObj)
        ELSE IF shape_check(v) # NoError THEN Abort(shape_check(v), s3, {}, NoObj)
        ELSE IF pkinfo_tested(v)
        THEN Abort(SPKAC_Decode_Error("Invalid Public Key Info", <<>>), s4, {}, NoObj)
        ELSE init_checked(v, args, s4)

NoCert == [version |-> 0]
NoCall == [serial |-> 0]
NoRet == [kind |-> "none", cert |-> NoCert]
NoArg == [given |-> FALSE]

Init ==
    /\ phase = "new"
    /\ arg = NoArg
    /\ err = NoError
    /\ steps = <<>>
    /\ attrs = {}
    /\ obj = NoObj
    /\ extensions = <<>>
    /\ subject = {}
    /\ cert = NoCert
    /\ call = NoCall
    /\ ret = NoRet
    /\ pushed = <<>>
    /\ issued_with = <<>>
    /\ kept = TRUE
    /\ returned = FALSE

Construct(i) ==
    /\ LET out == init(i.b64val, i.args)
       IN  /\ phase' = IF out.err = NoError THEN "ok" ELSE "failed"
           /\ arg' = i
           /\ err' = out.err
           /\ steps' = out.steps
           /\ attrs' = out.attrs
           /\ obj' = out.obj
           /\ extensions' = out.extensions
           /\ subject' = out.subject
           /\ pushed' = IF out.err = NoError THEN i.args.extensions ELSE <<>>
    /\ UNCHANGED <<cert, call, ret, issued_with, kept, returned>>

PushExtension(e) ==
    /\ phase = "ok"
    /\ Len(extensions) < MaxExt
    /\ extensions' = push(extensions, e)
    /\ pushed' = Append(pushed, e)
    /\ UNCHANGED <<phase, arg, err, steps, attrs, obj, subject, cert, call, ret,
                   issued_with, kept, returned>>

SetSubject(k, v) ==
    /\ phase = "ok"
    /\ subject' = set_subject(subject, k, v)
    /\ UNCHANGED <<phase, arg, err, steps, attrs, obj, extensions, cert, call,
                   ret, pushed, issued_with, kept, returned>>

(***************************************************************************)
(* SPKAC.gen_crt                                                           *)
(***************************************************************************)
Year == 60 * 60 * 24 * 365

\* Number of basicConstraints extensions with the given value on a stack.
Count(stack, e) == Cardinality({k \in 1..Len(stack) : stack[k] = e})

\* The values X509.check_ca can return for a certificate with these
\* extensions: 0 without a CA:TRUE basicConstraints, 1 with exactly one
\* basicConstraints that says CA:TRUE; with several basicConstraints the
\* library's answer depends on its version.
check_ca(exts) ==
    IF Count(exts, "CA:TRUE") = 0 THEN {0}
    ELSE IF Count(exts, "CA:TRUE") + Count(exts, "CA:FALSE") = 1 THEN {1}
    ELSE {0, 1}

\* The values X509.verify (ca_pkey) can return after X509.sign returned
\* sign_rc: 1 for a certificate signed by ca_pkey, 0 (no match) or -1
\* (error) for one that X509.sign left unsigned.
verify(sign_rc) == IF sign_rc = 1 THEN {1} ELSE {-1, 0}

\* The arguments of a gen_crt call and the outcome of each library call it
\* makes; exts is the extension stack at the time of the call.
GenArgs(exts) ==
    { a \in
      [ serial     : {42},
        not_before : {None, Some(0), Some(5)},
        not_after  : {None, Some(0), Some(9)},
        now        : {100000},                 \* long (time.time ())
        timezone   : {-3600},                  \* time.timezone (CET)
        sign_rc    : {0, 1},                   \* X509.sign return code
        verify_rc  : {-1, 0, 1},               \* X509.verify return code
        ca_rc      : check_ca(exts) ]          \* X509.check_ca return code
      : a.verify_rc \in verify(a.sign_rc) }

\* Lines 208-209.
not_before_used(a) ==
    IF ~TruthyInt(a.not_before) THEN a.now + a.timezone ELSE a.not_before[1]

\* Lines 210-211.
not_after_used(a) ==
    IF ~TruthyInt(a.not_after) THEN not_before_used(a) + Year
    ELSE a.not_after[1]

\* Lines 225-226: add_ext puts each extension of the stack, in stack order,
\* on the end of the certificate's extension list.
RECURSIVE add_exts(_, _)
add_exts(cexts, stack) ==
    IF stack = <<>> THEN cexts
    ELSE add_exts(Append(cexts, Head(stack)), Tail(stack))

\* Lines 217-227: the certificate object as it is after cert.sign.
build_cert(a) ==
    [ version    |-> 2,
      serial     |-> a.serial,
      not_before |-> not_before_used(a),
      not_after  |-> not_after_used(a),
      pubkey     |-> obj.pkey,
      subject    |-> subject,
      issuer     |-> "ca_crt.subject",
      exts       |-> add_exts(<<>>, extensions),
      signed     |-> a.sign_rc = 1 ]

\* Line 217: the attribute that holds the certificate from the moment it
\* is created; cert.sign and the assertions act on the same object.
cached_cert(old, new) == new

\* Lines 228-229: the truth values the two assert statements test.
assert_verify(a) == a.verify_rc # 0

assert_not_ca(a) == a.ca_rc = 0

GenCrt(a) ==
    /\ phase = "ok"
    /\ LET c == build_cert(a)
           returns == assert_verify(a) /\ assert_not_ca(a)
       IN  /\ cert' = cached_cert(cert, c)
           /\ ret' = IF returns THEN [kind |-> "returned", cert |-> c]
                     ELSE [kind |-> "AssertionError", cert |-> NoCert]
           /\ returned' = (returned \/ returns)
           /\ kept' = (cert' = cert)
    /\ issued_with' = pushed
    /\ call' = a
    /\ attrs' = attrs \cup {"cert"}
    /\ UNCHANGED <<phase, arg, err, steps, obj, extensions, subject, pushed>>

\* The constructor alone, on every input.
NextInit == phase = "new" /\ \E i \in Inputs : Construct(i)

SpecInit == Init /\ [][NextInit]_vars

\* The life of an object.
Next ==
    \/ phase = "new" /\ \E i \in LifeInputs : Construct(i)
    \/ \E e \in Exts : PushExtension(e)
    \/ \E k \in SubjectKeys, v \in SubjectValues : SetSubject(k, v)
    \/ phase = "ok" /\ \E a \in GenArgs(extensions) : GenCrt(a)

Spec == Init /\ [][Next]_vars

(***************************************************************************)
(* Vocabulary of the properties                                            *)
(***************************************************************************)
Called == phase # "new"
V == arg.b64val
A == arg.args

Range(q) == {q[k] : k \in 1..Len(q)}

\* The checks of the constructor, in the order of the design.
Order == <<"decode", "trailing", "shape", "pkinfo", "challenge", "resolve",
           "verify">>

\* Whether an input fails a check, stated on the input alone.
Fails(step, v, a) ==
    CASE step = "decode"    -> v.decode # "ok"
      [] step = "trailing"  -> v.rest
      [] step = "shape"     -> v.shape # GoodShape
      [] step = "pkinfo"    -> v.params
      [] step = "challenge" -> /\ a.challenge \notin {None, Some("")}
                               /\ a.challenge # Some(v.echallenge)
      [] step = "resolve"   -> v.oid # RsaMd5Oid \/ v.keyload # "ok"
      [] step = "verify"    -> v.r # 1

\* Index in Order of the first check the input fails; Len(Order) + 1 when
\* it passes them all.
FirstFailing(v, a) ==
    LET bad == {k \in 1..Len(Order) : Fails(Order[k], v, a)}
    IN  IF bad = {} THEN Len(Order) + 1
        ELSE CHOOSE k \in bad : \A j \in bad : k <= j

PassesAll(v, a) == FirstFailing(v, a) = Len(Order) + 1

\* The check an exception comes from.
ErrStep(e) ==
    CASE e.msg \in {"b64decode", "PyAsn1Error"}              -> "decode"
      [] e.msg = "ASN.1 decode: data after SPKAC value"     -> "trailing"
      [] e.msg \in {"len", "Unknown SPKAC data format"}      -> "shape"
      [] e.msg = "Invalid Public Key Info"                  -> "pkinfo"
      [] e.msg = "Challenge doesn't match: got \"%s\" expect \"%s\""
                                                            -> "challenge"
      [] e.msg \in {"Unknown signature algorithm", "load_pub_key_bio"}
                                                            -> "resolve"
      [] OTHER                                              -> "verify"

\* The strings a challenge error reports as received and as expected.
Got(e) == e.args[1]
Expect(e) == e.args[2]

IsChallengeError(e) == e # NoError /\ ErrStep(e) = "challenge"

(***************************************************************************)
(* C1                                                                      *)
(***************************************************************************)
\* C1: there is no partially verified object.  An object on which extensions
\* or subject exist was built from an input that passes every check of the
\* constructor; an input that fails a check makes the constructor raise,
\* and then no extension is pushed, no subject attribute is set and no
\* certificate is issued.
C1_NoPartiallyVerified ==
    /\ (attrs \cap {"extensions", "subject"} # {}) =>
           /\ phase = "ok"
           /\ {"extensions", "subject"} \subseteq attrs
           /\ PassesAll(V, A)
    /\ (Called /\ ~PassesAll(V, A)) =>
           /\ phase = "failed"
           /\ err # NoError
           /\ extensions = <<>>
           /\ subject = {}
           /\ attrs \cap {"extensions", "subject", "cert"} = {}
           /\ cert = NoCert
           /\ call = NoCall

C1_Witness ==
    /\ phase = "ok"
    /\ A.extensions # <<>>
    /\ Len(extensions) = 2
    /\ subject # {}
    /\ ret.kind = "returned"

(***************************************************************************)
(* C2                                                                      *)
(***************************************************************************)
OtherwiseValid(v) ==
    \A k \in 1..Len(Order) : Order[k] # "challenge" => ~Fails(Order[k], v, A)

\* C2 (as stated): on an otherwise valid input the constructor fails on the
\* challenge check iff an expected challenge is given, non-empty and
\* different from the decoded one; the error is then of a class of its own,
\* not the class of the decode errors, and reports the decoded challenge as
\* received and the caller's as expected.
C2_Original ==
    (Called /\ OtherwiseValid(V)) =>
        /\ phase = "failed" <=> Fails("challenge", V, A)
        /\ phase = "failed" =>
               /\ IsChallengeError(err)
               /\ err.cls # "SPKAC_Decode_Error"
               /\ Got(err) = V.echallenge
               /\ Expect(err) = A.challenge[1]

\* C2 (amended): on an otherwise valid input the constructor fails on the
\* challenge check iff an expected challenge is given, non-empty and
\* different from the decoded one; the error is then an SPKAC_Decode_Error,
\* the class of every decode error, whose message reports the caller's
\* challenge after "got" and the decoded challenge after "expect".  Without
\* an expected challenge no input fails the challenge check.
C2_ChallengeValidation ==
    /\ (Called /\ OtherwiseValid(V)) =>
           /\ phase = "failed" <=> Fails("challenge", V, A)
           /\ phase = "failed" =>
                  /\ IsChallengeError(err)
                  /\ err.cls = "SPKAC_Decode_Error"
                  /\ Got(err) = A.challenge[1]
                  /\ Expect(err) = V.echallenge
    /\ (Called /\ A.challenge \in {None, Some("")}) => ~IsChallengeError(err)

C2_Witness ==
    /\ phase = "failed"
    /\ OtherwiseValid(V)
    /\ A.challenge = Some("b")
    /\ V.echallenge = "a"
    /\ err.args = <<"b", "a">>

(***************************************************************************)
(* C3                                                                      *)
(***************************************************************************)
\* C3: every failure of the constructor that the input causes (all but the
\* fatal one for a verify_final return code above 1) is an
\* SPKAC_Decode_Error: bad base64, bad DER, a value of the wrong shape,
\* an invalid public key info, an unknown signature algorithm, a key that
\* does not load, a signature that does not verify.
C3_SingleErrorKind ==
    (phase = "failed" /\ ~(ErrStep(err) = "verify" /\ V.r > 1)) =>
        err.cls = "SPKAC_Decode_Error"

(***************************************************************************)
(* C4                                                                      *)
(***************************************************************************)
PassedShape(v) == v.decode = "ok" /\ ~v.rest /\ v.shape = GoodShape

InvalidPublicKeyInfo == SPKAC_Decode_Error("Invalid Public Key Info", <<>>)

\* C4 (as stated): an input that passed the trailing-data and shape checks
\* fails with "Invalid Public Key Info" exactly when the key bits of its
\* SubjectPublicKeyInfo, seq [0][0][1], are non-empty.
C4_Original ==
    (Called /\ PassedShape(V)) => (err = InvalidPublicKeyInfo <=> V.keybits)

\* C4 (amended): an input that passed the trailing-data and shape checks
\* fails with "Invalid Public Key Info" exactly when the second element of
\* the outer signature AlgorithmIdentifier, seq [1][1], is non-empty; the
\* key bits of the SubjectPublicKeyInfo are not tested.
C4_PublicKeyInfo ==
    (Called /\ PassedShape(V)) => (err = InvalidPublicKeyInfo <=> V.params)

C4_Witness ==
    /\ phase = "failed"
    /\ PassedShape(V)
    /\ V.params
    /\ ~V.keybits
    /\ err = InvalidPublicKeyInfo

(***************************************************************************)
(* C5                                                                      *)
(***************************************************************************)
\* C5: every certificate gen_crt returns verifies against the issuer's key
\* (X509.verify gives 1) and is no CA certificate (X509.check_ca gives 0),
\* whatever was pushed; a call whose certificate does not verify or is a CA
\* certificate raises and returns nothing.
C5_Postconditions ==
    call # NoCall =>
        /\ ret.kind = "returned" => (call.verify_rc = 1 /\ call.ca_rc = 0)
        /\ (call.verify_rc # 1 \/ call.ca_rc # 0) => ret.kind = "AssertionError"

(***************************************************************************)
(* C6                                                                      *)
(***************************************************************************)
\* C6: the extension stack is the constructor's extensions followed by the
\* pushed ones, in call order, with nothing dropped, merged or reordered;
\* a certificate made by gen_crt, on the first call or a later one, carries
\* the extensions the stack had at the call, in that order.
C6_ExtensionOrder ==
    phase = "ok" =>
        /\ extensions = pushed
        /\ call # NoCall => cert.exts = issued_with
        /\ ret.kind = "returned" => ret.cert.exts = issued_with

C6_Witness ==
    /\ phase = "ok"
    /\ ret.kind = "returned"
    /\ A.extensions = <<"CA:FALSE">>
    /\ ret.cert.exts = <<"CA:FALSE", "CA:TRUE">>

(***************************************************************************)
(* C7                                                                      *)
(***************************************************************************)
ReachesVerify(v, a) == FirstFailing(v, a) >= Len(Order)

\* C7: for an input that reaches signature verification, a verify_final
\* return code r < 0 gives SPKAC_Decode_Error "Error during signature
\* verification", r = 0 gives SPKAC_Decode_Error "Invalid signature", r > 1
\* gives a RuntimeError, and the constructor returns only for r = 1.
C7_TriState ==
    /\ (Called /\ ReachesVerify(V, A)) =>
           /\ V.r < 0 => err = SPKAC_Decode_Error("Error during signature verification", <<>>)
           /\ V.r = 0 => err = SPKAC_Decode_Error("Invalid signature", <<>>)
           /\ V.r = 1 => phase = "ok" /\ err = NoError
           /\ V.r > 1 => phase = "failed" /\ err.cls = "RuntimeError"
    /\ phase = "ok" => V.r = 1

C7_Witness ==
    /\ phase = "failed"
    /\ ReachesVerify(V, A)
    /\ V.r = 2
    /\ err.cls = "RuntimeError"

(***************************************************************************)
(* C8                                                                      *)
(***************************************************************************)
\* C8: a certificate made by gen_crt has the caller's not_before when one
\* is given, 0 included, and the current time otherwise; it has the
\* caller's not_after when one is given, 0 included, and its not_before
\* plus 31536000 seconds otherwise.
C8_ValidityWindow ==
    call # NoCall =>
        /\ cert.not_before =
               IF call.not_before # None THEN call.not_before[1] ELSE call.now
        /\ cert.not_after =
               IF call.not_after # None THEN call.not_after[1]
               ELSE cert.not_before + 31536000

(***************************************************************************)
(* C9                                                                      *)
(***************************************************************************)
\* C9: the constructor runs its checks once, in the order decode, trailing
\* data, shape, public key info, challenge, algorithm lookup and key load,
\* signature verification, and then accepts extensions and subject; it
\* stops at the first check the input fails and raises that check's error.
C9_CheckOrder ==
    Called =>
        LET k == FirstFailing(V, A)
        IN  IF k <= Len(Order)
            THEN /\ phase = "failed"
                 /\ steps = SubSeq(Order, 1, k)
                 /\ ErrStep(err) = Order[k]
            ELSE /\ phase = "ok"
                 /\ steps = Order \o <<"accept">>

C9_Witness ==
    /\ phase = "failed"
    /\ Fails("challenge", V, A)
    /\ V.oid = RsaSha1Oid
    /\ V.r = 0
    /\ IsChallengeError(err)
    /\ "resolve" \notin Range(steps)
    /\ "verify" \notin Range(steps)

(***************************************************************************)
(* C10                                                                     *)
(***************************************************************************)
\* C10: self.cert is the certificate the last gen_crt call that returned
\* has returned, and there is none before a call has returned; a call that
\* raises leaves self.cert as it was, so that self.cert is never an
\* unsigned certificate or one that failed the postconditions of gen_crt.
C10_CachedCert ==
    /\ ~returned => cert = NoCert
    /\ ret.kind = "returned" => cert = ret.cert
    /\ ret.kind = "AssertionError" => kept

====
